---- MODULE Spec2Model ----
(***************************************************************************)
(* Model of pym/portage_news.py: the GLEP 42 news manager (NewsManager),   *)
(* the news item (NewsItem) and its three display restrictions.            *)
(*                                                                         *)
(* Python raises an exception where a name or an attribute does not        *)
(* resolve, where a call does not fit the signature it is made to, and     *)
(* where a recursion does not end.  Those outcomes are part of what each   *)
(* method does, so every operator below returns a record whose field exc   *)
(* names the exception that left the method ("None" when it returned).     *)
(*                                                                         *)
(* Strings the code compares or slices (lines of a news file, profile      *)
(* names, keywords, package specs) are sequences of tokens, so that what a *)
(* regular expression captures is computed and not assumed.  Paths are     *)
(* sequences of components.                                                *)
(*                                                                         *)
(* NewsManager.__init__ (lines 26-36) and NewsItem.__init__ (lines         *)
(* 102-111) both raise before they return an instance (the first on the    *)
(* unbound name portage, the second on os.path.isFile), so no sequence of  *)
(* calls builds a receiver.  The methods are public and take the instance  *)
(* as their first input: the initial states draw the receiver's fields and *)
(* the filesystem from bounded sets, and the actions are the calls.        *)
(***************************************************************************)
EXTENDS Integers, Sequences, FiniteSets, TLC

VARIABLES
    files,      \* the news directories: path -> file state
    timestamp,  \* mtime of TIMESTAMP_PATH, or NoStamp when the file is absent
    unread,     \* the unread ledgers: repoid -> whether it exists, its lines
    item,       \* the fields of the NewsItem instance under examination
    last        \* the last call: operation, arguments, outcome, state before

vars == <<files, timestamp, unread, item, last>>

(***************************************************************************)
(* Bounds                                                                  *)
(***************************************************************************)
MaxTime == 2          \* modification times range over 0..MaxTime
MaxUnread == 1        \* longest ledger an initial state holds
RecursionLimit == 3   \* depth at which the interpreter ends a recursion

(***************************************************************************)
(* Name resolution                                                         *)
(***************************************************************************)
\* Names bound at module level: the imports and the classes.
ModuleGlobals ==
    {"PRIVATE_PATH", "INCREMENTALS", "PROFILE_PATH", "config", "os", "re",
     "NewsManager", "NewsItem", "DisplayRestriction",
     "DisplayProfileRestriction", "DisplayKeywordRestriction",
     "DisplayInstalledRestriction"}

\* The builtins the module uses.  There is no builtin close.
Builtins == {"open", "len", "object", "ValueError", "NotImplementedError",
             "True", "False"}

\* A bare name inside a method resolves among the method's locals, the
\* module's globals and the builtins; never among the attributes of self or
\* of the enclosing class.
Bound(name, locals) == name \in locals \cup ModuleGlobals \cup Builtins

\* The functions of os.path the module reaches for.  There is no isFile.
OsPathAttrs == {"join", "exists", "isfile", "isdir", "islink"}

\* A call f(**passed) against def f(self, <params>): every keyword must be a
\* parameter and every parameter must be given.
SignatureFits(params, passed) == passed = params

(***************************************************************************)
(* Results                                                                 *)
(***************************************************************************)
Returned(v) == [exc |-> "None", val |-> v]
Raised(e) == [exc |-> e, val |-> <<>>]

(***************************************************************************)
(* The filesystem                                                          *)
(***************************************************************************)
KnownRepos == {"gentoo"}
RepoIds == {"gentoo", "nonexistent-repo"}
NEWS_PATH == "metadata/news"
Names == {"2024-01-news", "2023-01-news"}

NoStamp == -1
\* A ledger: whether the file exists, and its lines.
Ledger(lines) == [exists |-> TRUE, lines |-> lines]
NoLedger == [exists |-> FALSE, lines |-> <<>>]

\* Tokens of a news file's lines.
DI == "Display-If-Installed:"
DP == "Display-If-Profile:"
DK == "Display-If-Keyword:"
NL == "\n"
SP == " "
DTokens == {DI, DP, DK, "Display-If-Other:"}

ProfileX == "default/linux/amd64"
ProfileY == "default/linux/x86"
Amd64 == "amd64"
Atom == "sys-apps/portage"

TextEmpty == <<>>
TextTitle == << <<"Title:", SP, "news", NL>> >>
TextProfile == << <<"Title:", SP, "news", NL>>, <<DP, SP, ProfileX, NL>> >>
TextProfileNoNL == << <<DP, SP, ProfileX>> >>
TextKeywordProfile == << <<DK, SP, Amd64, NL>>, <<DP, SP, ProfileX, NL>> >>
TextInstalled == << <<DI, SP, Atom, NL>> >>
TextOther == << <<"Display-If-Other:", SP, "x", NL>> >>

Texts == {TextEmpty, TextTitle, TextProfile, TextProfileNoNL,
          TextKeywordProfile, TextInstalled, TextOther}

NoFile == [kind |-> "none", mtime |-> 0, text |-> <<>>]
Directory == [kind |-> "dir", mtime |-> 0, text |-> <<>>]
RegularFiles(texts) ==
    [kind : {"file"}, mtime : 0..MaxTime, text : texts]
FileStates(texts) == {NoFile, Directory} \cup RegularFiles(texts)

\* os.path.join( repoid, self.NEWS_PATH ), and an entry under it.
NewsDir(repoid) == <<repoid, NEWS_PATH>>
NewsPaths == {Append(NewsDir(r), n) : r \in KnownRepos, n \in Names}

\* The working directories a call is made from.
Cwds == {<<"root">>} \cup {NewsDir(r) : r \in KnownRepos}

\* A path that starts at a repository is taken as it is; any other is
\* relative to the working directory.
Resolve(cwd, path) ==
    IF path # <<>> /\ Head(path) \in RepoIds THEN path ELSE cwd \o path

Stat(fs, cwd, path) ==
    LET q == Resolve(cwd, path)
    IN  IF q \in DOMAIN fs THEN fs[q] ELSE NoFile

\* os.listdir( path ): the names present, in an order of the filesystem's.
Present(fs, repoid) ==
    {n \in Names : fs[Append(NewsDir(repoid), n)].kind # "none"}

RECURSIVE Listings(_)
Listings(S) ==
    IF S = {} THEN {<<>>}
    ELSE UNION {{<<n>> \o l : l \in Listings(S \ {n})} : n \in S}

(***************************************************************************)
(* The display restrictions (lines 164-217)                                *)
(***************************************************************************)
\* DisplayProfileRestriction( profile ), DisplayKeywordRestriction( keyword )
\* and DisplayInstalledRestriction( cpv ): param is the one field each keeps.
Restriction(class, param) == [class |-> class, param |-> param]

\* vdb.match( spec ): the installed packages the spec matches.
VdbMatch(vardb, spec) == {a \in vardb : <<a>> = spec}

\* def checkRestriction( self, **kwargs ) takes no positional argument.
\* nPositional is the number of positional arguments of the call.
checkRestriction(r, nPositional, kwargs) ==
    IF nPositional > 0 THEN Raised("TypeError")
    ELSE CASE r.class = "DisplayProfileRestriction" ->
                IF "profile" \notin DOMAIN kwargs THEN Raised("KeyError")
                ELSE Returned(r.param = kwargs.profile)
           [] r.class = "DisplayKeywordRestriction" ->
                IF "config" \notin DOMAIN kwargs THEN Raised("KeyError")
                ELSE IF ~kwargs.config.isMapping THEN Raised("TypeError")
                ELSE Returned(kwargs.config.ARCH = r.param)
           [] r.class = "DisplayInstalledRestriction" ->
                IF "vardb" \notin DOMAIN kwargs THEN Raised("KeyError")
                ELSE IF ~Bound("cpv", {"self", "kwargs", "vdb"})
                     THEN Raised("NameError")
                ELSE Returned(VdbMatch(kwargs.vardb, r.param) # {})
           [] OTHER -> Raised("NotImplementedError")

(***************************************************************************)
(* NewsItem (lines 86-162)                                                 *)
(***************************************************************************)
\* An instance: dict is the set of attributes that have been assigned.
Instance(dict, path, restrictions) ==
    [dict |-> dict, path |-> path, restrictions |-> restrictions]

Unbuilt == Instance({}, <<>>, <<>>)

Ret(e, v, obj) == [exc |-> e, val |-> v, obj |-> obj]

\* re.compile("<literal>(.*)\n").match( line ): the literal at the start,
\* then everything up to the first newline, which must be there.
ReMatch(literal, line) ==
    IF line = <<>> \/ Head(line) # literal
    THEN [matched |-> FALSE, group |-> <<>>]
    ELSE LET nls == {k \in 2..Len(line) : line[k] = NL}
         IN  IF nls = {} THEN [matched |-> FALSE, group |-> <<>>]
             ELSE LET k == CHOOSE j \in nls : \A m \in nls : j <= m
                  IN  [matched |-> TRUE, group |-> SubSeq(line, 2, k - 1)]

\* line.startswith("D")
StartsWithD(line) == line # <<>> /\ Head(line) \in DTokens

ParseLocals == {"self", "lines", "line", "match"}

\* self.restrictions.append( r )
AppendRestriction(obj, r) ==
    [obj EXCEPT !.restrictions = Append(@, r)]

\* What a call reads of the world around it: the news directories, the
\* cached timestamp, the working directory, the target of PROFILE_PATH and
\* the manager's vdb.
Env(fs, stamp, cwd, profile, vdb) ==
    [fs |-> fs, stamp |-> stamp, cwd |-> cwd, profile |-> profile,
     vdb |-> vdb]

\* The loop of parse (lines 138-157) from line i on.  A method's steps are
\* operators that take the outcome of the step before as a parameter.
RECURSIVE ParseLines(_, _, _)
RECURSIVE ParseLine(_, _, _, _)
RECURSIVE MatchInstalled(_, _, _, _, _)
RECURSIVE MatchProfile(_, _, _, _, _)
RECURSIVE MatchKeyword(_, _, _, _)

ParseLines(obj, lines, i) ==
    IF i > Len(lines) THEN Ret("None", <<>>, obj)
    ELSE ParseLine(obj, lines, i, lines[i])

\* Lines 141-143
ParseLine(obj, lines, i, line) ==
    IF ~StartsWithD(line) THEN ParseLines(obj, lines, i + 1)
    ELSE IF ~Bound("installedRE", ParseLocals)
         THEN Ret("NameError", <<>>, obj)
    ELSE MatchInstalled(ReMatch(DI, line), obj, lines, i, line)

\* Lines 144-148
MatchInstalled(match, obj, lines, i, line) ==
    IF match.matched
    THEN ParseLines(AppendRestriction(obj,
             Restriction("DisplayInstalledRestriction", match.group)),
             lines, i + 1)
    ELSE IF ~Bound("profileRE", ParseLocals)
         THEN Ret("NameError", <<>>, obj)
    ELSE MatchProfile(ReMatch(DP, line), obj, lines, i, line)

\* Lines 149-153
MatchProfile(match, obj, lines, i, line) ==
    IF match.matched
    THEN ParseLines(AppendRestriction(obj,
             Restriction("DisplayProfileRestriction", match.group)),
             lines, i + 1)
    ELSE IF ~Bound("keywordRE", ParseLocals)
         THEN Ret("NameError", <<>>, obj)
    ELSE MatchKeyword(ReMatch(DK, line), obj, lines, i)

\* Lines 154-157
MatchKeyword(match, obj, lines, i) ==
    IF match.matched
    THEN ParseLines(AppendRestriction(obj,
             Restriction("DisplayKeywordRestriction", match.group)),
             lines, i + 1)
    ELSE ParseLines(obj, lines, i + 1)

\* Attribute access, __getattr__ and parse call one another.  depth counts
\* the frames of __getattr__ on the stack.
RECURSIVE GetAttr(_, _, _, _)
RECURSIVE getattr(_, _, _, _)
RECURSIVE Tested(_, _, _)
RECURSIVE Parsed(_, _, _)
RECURSIVE parseAt(_, _, _)
RECURSIVE Opened(_, _)

\* self.<attr>: the instance's own attribute, and __getattr__ when it has
\* none.
GetAttr(obj, attr, depth, env) ==
    IF attr \in obj.dict THEN Ret("None", obj[attr], obj)
    ELSE getattr(obj, attr, depth + 1, env)

\* def __getattr__( self, attr )
getattr(obj, attr, depth, env) ==
    IF depth > RecursionLimit THEN Ret("RuntimeError", <<>>, obj)
    ELSE IF attr = "restrictions"
         THEN Tested(GetAttr(obj, "restrictions", depth, env), depth, env)
    ELSE GetAttr(obj, "restrictions", depth, env)

\* Line 160 once self.restrictions has been evaluated to r: the test
\* not self.restrictions, and self.parse() when it holds.
Tested(r, depth, env) ==
    IF r.exc # "None" THEN r
    ELSE IF r.val = <<>>
         THEN Parsed(parseAt(r.obj, depth, env), depth, env)
    ELSE GetAttr(r.obj, "restrictions", depth, env)

\* Line 162 after self.parse() ended as p.
Parsed(p, depth, env) ==
    IF p.exc # "None" THEN p
    ELSE GetAttr(p.obj, "restrictions", depth, env)

\* def parse( self ), entered with depth frames of __getattr__ on the stack
parseAt(obj, depth, env) == Opened(GetAttr(obj, "path", depth, env), env)

\* The file read into lines (line 136) and the empty list assigned (line 137).
ReadLines(f, obj) ==
    IF f.kind # "file" THEN Ret("IOError", <<>>, obj)
    ELSE ParseLines([obj EXCEPT !.dict = @ \cup {"restrictions"},
                                !.restrictions = <<>>],
                    f.text, 1)

\* Line 136 once self.path has been evaluated to p.
Opened(p, env) ==
    IF p.exc # "None" THEN p
    ELSE IF "path" \notin p.obj.dict THEN Ret("TypeError", <<>>, p.obj)
    ELSE ReadLines(Stat(env.fs, env.cwd, p.val), p.obj)

\* item.parse()
parse(obj, env) == parseAt(obj, 0, env)

\* The loop of isRelevant (lines 129-133) from restriction i on: each
\* restriction is called with the one positional argument kwargs.
RECURSIVE AnyRestriction(_, _, _, _)
RECURSIVE Checked(_, _, _, _, _)

AnyRestriction(obj, rs, i, kwargs) ==
    IF i > Len(rs) THEN Ret("None", FALSE, obj)
    ELSE Checked(checkRestriction(rs[i], 1, kwargs), obj, rs, i, kwargs)

\* Lines 130-131 once the restriction's answer is c.
Checked(c, obj, rs, i, kwargs) ==
    IF c.exc # "None" THEN Ret(c.exc, <<>>, obj)
    ELSE IF c.val THEN Ret("None", TRUE, obj)
    ELSE AnyRestriction(obj, rs, i + 1, kwargs)

\* Lines 122-133 once self.restrictions has been evaluated to r.
Restricted(r, kwargs) ==
    IF r.exc # "None" THEN r
    ELSE IF Len(r.val) = 0 THEN Ret("None", TRUE, r.obj)
    ELSE AnyRestriction(r.obj, r.val, 1, kwargs)

\* def isRelevant( self, vardb, config, profile )
isRelevant(obj, vardb, config, profile, env) ==
    Restricted(GetAttr(obj, "restrictions", 0, env),
               [vardb |-> vardb, config |-> config, profile |-> profile])

\* Lines 109-111 on the file f that path names.
Newer(f, path, cache_mtime) ==
    IF f.kind # "file" THEN Ret("ValueError", <<>>, Unbuilt)
    ELSE IF ~(f.mtime > cache_mtime) THEN Ret("ValueError", <<>>, Unbuilt)
    ELSE Ret("None", <<>>, Instance({"path"}, path, <<>>))

\* def __init__( self, path, cache_mtime = 0 )
NewsItemInit(path, cache_mtime, env) ==
    IF "isFile" \notin OsPathAttrs THEN Ret("AttributeError", <<>>, Unbuilt)
    ELSE Newer(Stat(env.fs, env.cwd, path), path, cache_mtime)

(***************************************************************************)
(* NewsManager (lines 11-84)                                               *)
(***************************************************************************)
\* portage.config, the class that line 59 passes as keywords=config.
ConfigClass == [isMapping |-> FALSE, ARCH |-> <<>>]

InitLocals == {"self", "root", "NEWS_PATH", "UNREAD_PATH"}

\* def __init__( self, root, NEWS_PATH, UNREAD_PATH ): the three paths are
\* stored, then portage.config, portage.vardbapi and portage.portdbapi are
\* reached through the name portage.
NewsManagerInit ==
    IF ~Bound("portage", InitLocals) THEN Raised("NameError")
    ELSE Returned(<<>>)

UpdateLocals == {"self", "repoid", "repos", "timestamp", "path", "news",
                 "updates", "item", "tmp", "unread_file"}

\* The outcome of a manager's method: the exception, what it returned (ret
\* is "None" or "int", n the number) and the ledgers it leaves.
MRet(e, ret, n, ledgers) ==
    [exc |-> e, ret |-> ret, n |-> n, unread |-> ledgers]

\* The loop of updateNewsItems (lines 53-60) from entry i of the listing on.
\* Each entry is handed to NewsItem as os.listdir gave it, and isRelevant is
\* called with the keywords profile, keywords and vdb.
RECURSIVE Relevant(_, _, _, _)
RECURSIVE Built(_, _, _, _, _)
RECURSIVE Judged(_, _, _, _, _)

Relevant(news, i, updates, env) ==
    IF i > Len(news) THEN Returned(updates)
    ELSE Built(NewsItemInit(<<news[i]>>, env.stamp, env), news, i, updates,
               env)

\* Lines 56-59 once NewsItem( item, timestamp ) ended as tmp.
Built(tmp, news, i, updates, env) ==
    IF tmp.exc = "ValueError" THEN Relevant(news, i + 1, updates, env)
    ELSE IF tmp.exc # "None" THEN Raised(tmp.exc)
    ELSE IF ~SignatureFits({"vardb", "config", "profile"},
                           {"profile", "keywords", "vdb"})
         THEN Raised("TypeError")
    ELSE Judged(isRelevant(tmp.obj, env.vdb, ConfigClass, env.profile, env),
                news, i, updates, env)

\* Lines 59-60 once isRelevant ended as rel.
Judged(rel, news, i, updates, env) ==
    IF rel.exc # "None" THEN Raised(rel.exc)
    ELSE Relevant(news, i + 1,
                  IF rel.val THEN Append(updates, rel.obj.path) ELSE updates,
                  env)

\* The check of lines 45-47 left out: every identifier passes.
InvalidRepoUnchecked(repoid) == FALSE

\* repoid not in self.portdb.getRepositories()  (lines 45-46)
InvalidRepo(repoid) == repoid \notin KnownRepos

\* Lines 62-66: the ledger opened for appending, one line per update, and
\* close( unread_file ).
AppendUnread(repoid, updates, ledgers) ==
    IF ~Bound("UNREAD_PATH", UpdateLocals)
    THEN MRet("NameError", "None", 0, ledgers)
    ELSE MRet(IF Bound("close", UpdateLocals) THEN "None" ELSE "NameError",
              "None", 0,
              [ledgers EXCEPT
                  ![repoid] = Ledger(ledgers[repoid].lines \o updates)])

\* Lines 62-66 once the loop ended as rel.
Written(rel, repoid, ledgers) ==
    IF rel.exc # "None" THEN MRet(rel.exc, "None", 0, ledgers)
    ELSE AppendUnread(repoid, rel.val, ledgers)

\* def updateNewsItems( self, repoid ).  news is the listing os.listdir
\* gives for the repository's news directory.
updateNewsItems(repoid, news, ledgers, env) ==
    IF InvalidRepo(repoid) THEN MRet("ValueError", "None", 0, ledgers)
    ELSE IF env.stamp = NoStamp THEN MRet("OSError", "None", 0, ledgers)
    \* os.listdir of a directory that is not there
    ELSE IF repoid \notin KnownRepos
         THEN MRet("OSError", "None", 0, ledgers)
    ELSE Written(Relevant(news, 1, <<>>, env), repoid, ledgers)

GetLocals == {"self", "repoid", "update", "unreadfile", "unread"}

\* Lines 79-84 once the update, if any, ended as u: the number of lines of
\* the ledger, and None when there is no ledger or it is empty.
Counted(u, repoid) ==
    IF u.exc # "None" THEN u
    ELSE IF ~Bound("UNREAD_PATH", GetLocals)
         THEN MRet("NameError", "None", 0, u.unread)
    ELSE IF u.unread[repoid].exists /\ Len(u.unread[repoid].lines) > 0
         THEN MRet("None", "int", Len(u.unread[repoid].lines), u.unread)
    ELSE MRet("None", "None", 0, u.unread)

\* def getUnreadItems( self, repoid, update=False )
getUnreadItems(repoid, update, news, ledgers, env) ==
    Counted(IF update THEN updateNewsItems(repoid, news, ledgers, env)
                      ELSE MRet("None", "None", 0, ledgers),
            repoid)

(***************************************************************************)
(* Inputs of the calls                                                     *)
(***************************************************************************)
Profiles == {<<ProfileX>>, <<SP, ProfileX>>, <<ProfileY>>}
Vardbs == {{}, {Atom}}

\* The listings os.listdir may give for repoid.
NewsOf(fs, repoid) ==
    IF repoid \in KnownRepos THEN Listings(Present(fs, repoid)) ELSE {<<>>}

Envs == {Env(files, timestamp, cwd, profile, vdb) :
            cwd \in Cwds, profile \in Profiles, vdb \in Vardbs}

NoCall == [op |-> "none", exc |-> "None"]

(***************************************************************************)
(* The manager's calls                                                     *)
(***************************************************************************)
\* The call op( repoid, update ) ended as res.
ManagerCalled(op, repoid, update, res) ==
    /\ unread' = res.unread
    /\ last' = [op |-> op, repoid |-> repoid, update |-> update,
                exc |-> res.exc, ret |-> res.ret, n |-> res.n,
                before |-> unread, stamp |-> timestamp]
    /\ UNCHANGED <<files, timestamp, item>>

\* NewsManager( root, NEWS_PATH, UNREAD_PATH )
CallNewsManager ==
    /\ last' = [op |-> "NewsManager", exc |-> NewsManagerInit.exc]
    /\ UNCHANGED <<files, timestamp, unread, item>>

CallUpdateNewsItems ==
    \E repoid \in RepoIds, env \in Envs :
    \E news \in NewsOf(files, repoid) :
        ManagerCalled("updateNewsItems", repoid, FALSE,
                      updateNewsItems(repoid, news, unread, env))

CallGetUnreadItems ==
    \E repoid \in RepoIds, update \in BOOLEAN, env \in Envs :
    \E news \in NewsOf(files, repoid) :
        ManagerCalled("getUnreadItems", repoid, update,
                      getUnreadItems(repoid, update, news, unread, env))

\* The ledgers an initial state may hold: written by earlier runs.
RECURSIVE SeqsUpTo(_, _)
SeqsUpTo(S, n) ==
    IF n = 0 THEN {<<>>}
    ELSE SeqsUpTo(S, n - 1)
         \cup {Append(s, x) : s \in SeqsUpTo(S, n - 1), x \in S}

LedgerLines == {<<"2023-01-news">>}
Ledgers ==
    {NoLedger} \cup {Ledger(l) : l \in SeqsUpTo(LedgerLines, MaxUnread)}
ManagerTexts == {TextTitle, TextProfile}

ManagerInit ==
    /\ files \in [NewsPaths -> FileStates(ManagerTexts)]
    /\ timestamp \in {NoStamp} \cup 0..MaxTime
    /\ unread \in [RepoIds -> Ledgers]
    /\ item = Unbuilt
    /\ last = NoCall

ManagerNext ==
    \/ CallNewsManager
    \/ CallUpdateNewsItems
    \/ CallGetUnreadItems

ManagerSpec == ManagerInit /\ [][ManagerNext]_vars

(***************************************************************************)
(* The item's and the restrictions' calls                                  *)
(***************************************************************************)
\* The file the instance names: as os.listdir gives it, and in full.
ItemName == "2024-01-news"
ItemPath == Append(NewsDir("gentoo"), ItemName)
ItemPaths == {<<ItemName>>, ItemPath}

ProfileR(v) == Restriction("DisplayProfileRestriction", v)
KeywordR(v) == Restriction("DisplayKeywordRestriction", v)
InstalledR(v) == Restriction("DisplayInstalledRestriction", v)

\* The restrictions a caller builds, and the lists an instance may hold.
Restrictions == {ProfileR(<<ProfileX>>), ProfileR(<<SP, ProfileX>>),
                 KeywordR(<<Amd64>>), InstalledR(<<Atom>>)}
RestrictionLists ==
    {<<>>, <<ProfileR(<<ProfileX>>)>>, <<ProfileR(<<SP, ProfileX>>)>>,
     <<KeywordR(<<Amd64>>), ProfileR(<<ProfileX>>)>>,
     <<InstalledR(<<Atom>>)>>}

Items ==
    {Unbuilt}
    \cup {Instance({"path"}, p, <<>>) : p \in ItemPaths}
    \cup {Instance({"path", "restrictions"}, p, rs) :
             p \in ItemPaths, rs \in RestrictionLists}

ItemProfiles == {<<ProfileX>>, <<ProfileY>>}
ItemConfigs == {[isMapping |-> TRUE, ARCH |-> <<Amd64>>],
                [isMapping |-> TRUE, ARCH |-> <<"x86">>]}
Kwargs ==
    [vardb : Vardbs, config : ItemConfigs, profile : ItemProfiles]

\* A call on the instance ended as res and left the instance res.obj.
ItemCalled(op, args, res) ==
    /\ item' = res.obj
    /\ last' = [op |-> op, args |-> args, exc |-> res.exc, val |-> res.val,
                before |-> item]
    /\ UNCHANGED <<files, timestamp, unread>>

\* NewsItem( path, cache_mtime ) ended as res: a new instance when it
\* returned, none when it raised.
Constructed(args, res) ==
    /\ item' = IF res.exc = "None" THEN res.obj ELSE item
    /\ last' = [op |-> "NewsItem", args |-> args, exc |-> res.exc,
                val |-> res.val, before |-> item]
    /\ UNCHANGED <<files, timestamp, unread>>

\* A call on a restriction ended as res.
RestrictionCalled(args, res) ==
    /\ last' = [op |-> "checkRestriction", args |-> args, exc |-> res.exc,
                val |-> res.val, before |-> item]
    /\ UNCHANGED <<files, timestamp, unread, item>>

CallNewsItem ==
    \E path \in ItemPaths, cache_mtime \in 0..MaxTime, cwd \in Cwds :
        Constructed([path |-> path, cache_mtime |-> cache_mtime, cwd |-> cwd],
                    NewsItemInit(path, cache_mtime,
                                 Env(files, timestamp, cwd, <<>>, {})))

CallIsRelevant ==
    \E kw \in Kwargs, cwd \in Cwds :
        ItemCalled("isRelevant", [kwargs |-> kw, cwd |-> cwd],
                   isRelevant(item, kw.vardb, kw.config, kw.profile,
                              Env(files, timestamp, cwd, <<>>, {})))

CallParse ==
    \E cwd \in Cwds :
        ItemCalled("parse", [cwd |-> cwd],
                   parse(item, Env(files, timestamp, cwd, <<>>, {})))

\* item.restrictions
CallRestrictions ==
    \E cwd \in Cwds :
        ItemCalled("restrictions", [cwd |-> cwd],
                   GetAttr(item, "restrictions", 0,
                           Env(files, timestamp, cwd, <<>>, {})))

\* r.checkRestriction( **kwargs ), and r.checkRestriction( kwargs ) as
\* isRelevant calls it.
CallCheckRestriction ==
    \E r \in Restrictions, nPositional \in {0, 1}, kw \in Kwargs :
        RestrictionCalled([r |-> r, nPositional |-> nPositional,
                           kwargs |-> kw],
                          checkRestriction(r, nPositional, kw))

ItemInit ==
    /\ files \in {f \in [NewsPaths -> FileStates(Texts)] :
                     \A q \in NewsPaths \ {ItemPath} : f[q] = NoFile}
    /\ timestamp = 0
    /\ unread = [r \in RepoIds |-> NoLedger]
    /\ item \in Items
    /\ last = NoCall

ItemNext ==
    \/ CallNewsItem
    \/ CallIsRelevant
    \/ CallParse
    \/ CallRestrictions
    \/ CallCheckRestriction

ItemSpec == ItemInit /\ [][ItemNext]_vars

(***************************************************************************)
(* Properties                                                              *)
(***************************************************************************)
\* What the specification says of a restriction: a profile restriction
\* matches when the active profile equals its parameter, a keyword
\* restriction when the configuration's architecture does, an installed
\* restriction when the installed packages hold a match for its spec.
Matches(r, kwargs) ==
    CASE r.class = "DisplayProfileRestriction" -> kwargs.profile = r.param
      [] r.class = "DisplayKeywordRestriction" ->
            kwargs.config.ARCH = r.param
      [] r.class = "DisplayInstalledRestriction" ->
            \E a \in kwargs.vardb : <<a>> = r.param

\* A candidate the refresh admits: a regular file newer than the cutoff.
Admitted(f, cutoff) == f.kind = "file" /\ f.mtime > cutoff

\* A text with no restriction declaration.
Undeclared(text) ==
    \A k \in 1..Len(text) : text[k] = <<>> \/ Head(text[k]) \notin {DI, DP, DK}

Range(q) == {q[k] : k \in 1..Len(q)}
IsPrefix(p, q) == Len(p) <= Len(q) /\ SubSeq(q, 1, Len(p)) = p

\* The lines a call added to the ledger of repoid.
Added(before, after, repoid) ==
    SubSeq(after[repoid].lines, Len(before[repoid].lines) + 1,
           Len(after[repoid].lines))

Candidate(repoid, n) == files[Append(NewsDir(repoid), n)]

\* The last call was a refresh of repoid: updateNewsItems, or
\* getUnreadItems with update set.
Refreshed ==
    \/ last.op = "updateNewsItems"
    \/ last.op = "getUnreadItems" /\ last.update

\* The last call was a refresh of a known repository with the timestamp
\* cache in place.
RefreshedKnown ==
    /\ last.op = "updateNewsItems"
    /\ last.repoid \in KnownRepos
    /\ last.stamp # NoStamp

\* The file the instance named when the last call was made.
FileBefore == Stat(files, last.args.cwd, last.before.path)

\* C1: isRelevant returns a boolean and never fails: true when the item's
\* restriction list is empty or one of its restrictions matches the context,
\* false otherwise.
C1_RelevantIffAnyMatches ==
    last.op = "isRelevant" =>
        /\ last.exc = "None"
        /\ "restrictions" \in last.before.dict =>
              last.val = (\/ last.before.restrictions = <<>>
                          \/ \E k \in 1..Len(last.before.restrictions) :
                                Matches(last.before.restrictions[k],
                                        last.args.kwargs))

\* C2: in a refresh whose candidates are all either no regular file or not
\* newer than the cached timestamp, none of them is appended to the ledger
\* and the refresh does not fail.
C2_ExcludedSilently ==
    (/\ RefreshedKnown
     /\ Present(files, last.repoid) # {}
     /\ \A n \in Present(files, last.repoid) :
           ~Admitted(Candidate(last.repoid, n), last.stamp))
    => /\ last.exc = "None"
       /\ \A n \in Present(files, last.repoid) :
             {<<n>>, Append(NewsDir(last.repoid), n)}
             \cap Range(Added(last.before, unread, last.repoid)) = {}

\* C3: after a refresh of a known repository that holds an admitted candidate
\* and whose candidates declare no restriction, the ledger exists and holds
\* its previous lines followed by exactly one line per admitted candidate,
\* the candidate's path under <repoid>/<news directory>.
C3_LedgerGainsAdmitted ==
    (/\ RefreshedKnown
     /\ \E n \in Present(files, last.repoid) :
           Admitted(Candidate(last.repoid, n), last.stamp)
     /\ \A n \in Present(files, last.repoid) :
           Undeclared(Candidate(last.repoid, n).text))
    => /\ last.exc = "None"
       /\ unread[last.repoid].exists
       /\ IsPrefix(last.before[last.repoid].lines, unread[last.repoid].lines)
       /\ \E l \in Listings({n \in Present(files, last.repoid) :
                 Admitted(Candidate(last.repoid, n), last.stamp)}) :
             Added(last.before, unread, last.repoid)
                 = [k \in 1..Len(l) |-> Append(NewsDir(last.repoid), l[k])]

\* C4: a refresh with an identifier that is no known repository fails with
\* the invalid-identifier error and leaves every ledger and the timestamp
\* cache as they were.
C4_UnknownRepoRejected ==
    (Refreshed /\ last.repoid \notin KnownRepos)
    => /\ last.exc = "ValueError"
       /\ unread = last.before
       /\ timestamp = last.stamp

\* C4, reached: a refresh of nonexistent-repo was rejected and there is still
\* no ledger for it.
C4_Witness ==
    /\ last.op = "updateNewsItems"
    /\ last.repoid = "nonexistent-repo"
    /\ last.exc = "ValueError"
    /\ ~last.before["nonexistent-repo"].exists
    /\ ~unread["nonexistent-repo"].exists

\* C5: getUnreadItems without update returns; it reports no unread item
\* when the ledger does not exist, and the number of lines of the ledger
\* otherwise.
C5_CountsLedgerLines ==
    (last.op = "getUnreadItems" /\ ~last.update)
    => /\ last.exc = "None"
       /\ IF unread[last.repoid].exists
             /\ Len(unread[last.repoid].lines) > 0
          THEN last.ret = "int" /\ last.n = Len(unread[last.repoid].lines)
          ELSE last.ret = "None" \/ last.n = 0

\* C6: for a news file whose only declaration is Display-If-Profile: X,
\* parse yields exactly the profile restriction of X, and isRelevant on the
\* item that has not been parsed yet is true exactly when the profile is X.
C6_ProfileIffEqual ==
    /\ (/\ last.op = "parse"
        /\ "path" \in last.before.dict
        /\ FileBefore = [kind |-> "file", mtime |-> FileBefore.mtime,
                         text |-> TextProfile])
       => /\ last.exc = "None"
          /\ item.restrictions = <<ProfileR(<<ProfileX>>)>>
    /\ (/\ last.op = "isRelevant"
        /\ last.before.dict = {"path"}
        /\ FileBefore = [kind |-> "file", mtime |-> FileBefore.mtime,
                         text |-> TextProfile])
       => /\ last.exc = "None"
          /\ last.val = (last.args.kwargs.profile = <<ProfileX>>)

\* C7: an installed-package restriction called with its keywords returns,
\* and returns true exactly when the installed packages hold a match for
\* its stored spec.
C7_InstalledIffMatch ==
    (/\ last.op = "checkRestriction"
     /\ last.args.r.class = "DisplayInstalledRestriction"
     /\ last.args.nPositional = 0)
    => /\ last.exc = "None"
       /\ last.val = (\E a \in last.args.kwargs.vardb :
                         <<a>> = last.args.r.param)

\* C8: a refresh of a known repository none of whose candidates is newer
\* than the cached timestamp completes without error and leaves the ledger
\* as it was.
C8_NothingNewNothingAdded ==
    (/\ RefreshedKnown
     /\ \A n \in Present(files, last.repoid) :
           Candidate(last.repoid, n).mtime <= last.stamp)
    => /\ last.exc = "None"
       /\ unread[last.repoid].lines = last.before[last.repoid].lines

\* C9: no call removes or rewrites a line of a ledger, and every refresh of
\* a known repository appends the path of each admitted candidate that
\* declares no restriction, whatever the ledger already holds (so a second
\* refresh appends it a second time).
C9_AppendOnlyAndRepeated ==
    [][/\ \A r \in RepoIds :
             /\ IsPrefix(unread[r].lines, unread'[r].lines)
             /\ unread[r].exists => unread'[r].exists
       /\ (/\ last'.op = "updateNewsItems"
           /\ last'.repoid \in KnownRepos
           /\ last'.stamp # NoStamp)
          => \A n \in Present(files, last'.repoid) :
                (/\ Admitted(Candidate(last'.repoid, n), last'.stamp)
                 /\ Undeclared(Candidate(last'.repoid, n).text))
                => Append(NewsDir(last'.repoid), n)
                      \in Range(Added(unread, unread', last'.repoid))]_vars

\* C10: the first access to restrictions of an item that names a regular
\* file parses the file and returns the parsed list, which the item then
\* holds; an access to an item that holds its list returns that list and
\* leaves the item as it was.
C10_ParsedOnFirstAccess ==
    last.op = "restrictions" =>
        /\ (/\ last.before.dict = {"path"}
            /\ FileBefore.kind = "file")
           => /\ last.exc = "None"
              /\ "restrictions" \in item.dict
              /\ last.val = item.restrictions
        /\ "restrictions" \in last.before.dict
           => /\ last.exc = "None"
              /\ last.val = last.before.restrictions
              /\ item = last.before

====
